---- MODULE Spec2Model ----
(***************************************************************************)
(* Resource handlers of pulldown-cmark-mdcat (src/resources.rs):           *)
(* filter_schemes, NoopResourceHandler, the blanket impl for &R and the    *)
(* fallback loop of DispatchingResourceHandler::read_resource.             *)
(*                                                                         *)
(* A handler is a tree: Noop, a leaf implementation of the trait, a        *)
(* reference to a handler, or a dispatcher over a list of handlers.  A     *)
(* read_resource call is executed one handler invocation / one match arm   *)
(* at a time on a stack of frames, so that calls can interleave; the       *)
(* operators ReadAt / DispatchFrom compute the same function in one go.    *)
(***************************************************************************)
EXTENDS Naturals, Sequences, FiniteSets, TLC

VARIABLES built, self, call, fs

vars == <<built, self, call, fs>>

(* ------------------------------ bounds --------------------------------- *)

\* Largest number of handler nodes in the list given to new() (sequential runs).
MaxSize == 4

\* Longest handler list given to new() in the concurrent runs.
MaxConcLen == 2

\* Number of read_resource calls that run concurrently on one dispatcher.
MaxCalls == 2

\* Longest scheme list handed to filter_schemes.
MaxSchemes == 2

(* ------------------------------ values --------------------------------- *)

\* Url::scheme() of a parsed URL is lower case; rest is the serialization
\* of the parsed URL after "scheme:".
UrlSchemes == {"file", "data", "http"}

\* Strings a caller may put in the scheme list (matching is exact).
SchemeStrings == {"file", "data", "FILE"}

FileUrl == [scheme |-> "file", rest |-> "///tmp/x.png"]

DataUrl == [scheme |-> "data", rest |-> "image/png;base64,AA"]

\* URLs read through the dispatcher.
Urls == {FileUrl, DataUrl}

\* URLs handed to filter_schemes, each as Url::parse leaves it: for the
\* special scheme http the text after the colon is //host/path (the parser
\* turns http:///tmp/x.png into http://tmp/x.png), while file and data
\* URLs keep an empty host.
FilterUrls ==
    {[scheme |-> "file", rest |-> "///tmp/x.png"],
     [scheme |-> "file", rest |-> "//host/y"],
     [scheme |-> "data", rest |-> "///tmp/x.png"],
     [scheme |-> "data", rest |-> "//host/y"],
     [scheme |-> "http", rest |-> "//tmp/x.png"],
     [scheme |-> "http", rest |-> "//host/y"]}

\* Display of a URL, as interpolated by format!("{url}").
UrlString(u) == <<u.scheme, ":", u.rest>>

\* io::Result: Ok(v) or Err(io::Error { kind, message }).
Ok(v) == [ok |-> TRUE, val |-> v]

IoError(kind, fmt, url, schemes) ==
    [ok |-> FALSE,
     err |-> [kind |-> kind, msg |-> [fmt |-> fmt, url |-> url, schemes |-> schemes]]]

\* No value returned yet.
None == [pending |-> TRUE]

IsOk(r) == r # None /\ r.ok

IsErr(r) == r # None /\ ~r.ok

IsUnsupported(r) == IsErr(r) /\ r.err.kind = "Unsupported"

\* MimeData { mime_type: Option<Mime>, data: Vec<u8> }; the option is a
\* sequence of length at most one.
MimeData(mime, data) == [mime_type |-> mime, data |-> data]

(* --------------------------- filter_schemes ---------------------------- *)

\* Variant: only the first scheme of the list is compared.
ContainsFirst(schemes, s) == Len(schemes) > 0 /\ schemes[1] = s

\* slice::contains: exact string equality with some element.
Contains(schemes, s) == \E i \in 1..Len(schemes) : schemes[i] = s

FilterSchemes(schemes, url) ==
    IF Contains(schemes, url.scheme)
    THEN Ok(url)
    ELSE IoError("Unsupported", "Unsupported scheme in {url}, expected one of {schemes:?}",
                 UrlString(url), schemes)

(* ------------------------------ handlers ------------------------------- *)

Noop == [type |-> "Noop"]

\* An implementation of the trait outside this file: it guards its domain
\* with filter_schemes and then answers with its fixed reply.
Leaf(schemes, reply) == [type |-> "Leaf", schemes |-> schemes, reply |-> reply]

Ref(h) == [type |-> "Ref", inner |-> h]

\* Variant: the constructor stores the list back to front.
NewReversed(handlers) ==
    [type |-> "Dispatch",
     handlers |-> [i \in 1..Len(handlers) |-> handlers[Len(handlers) + 1 - i]]]

\* DispatchingResourceHandler::new
New(handlers) == [type |-> "Dispatch", handlers |-> handlers]

FilePng == Leaf(<<"file">>, Ok(MimeData(<<"image/png">>, <<137, 80>>)))

AnyRaw == Leaf(<<"data", "file">>, Ok(MimeData(<<>>, <<60>>)))

FileMissing == Leaf(<<"file">>, IoError("NotFound", "No such file", <<>>, <<>>))

DataBad == Leaf(<<"data">>, IoError("InvalidData", "Malformed data URL", <<>>, <<>>))

Basics == {Noop, FilePng, AnyRaw, FileMissing, DataBad}

RECURSIVE TreesOfSize(_), ListsOfSize(_)

\* Handler trees with exactly n nodes.
TreesOfSize(n) ==
    IF n = 1 THEN Basics \cup {New(<<>>)}
    ELSE {Ref(t) : t \in TreesOfSize(n - 1)}
         \cup {New(l) : l \in ListsOfSize(n - 1)}

\* Handler lists with exactly n nodes in total.
ListsOfSize(n) ==
    IF n = 0 THEN {<<>>}
    ELSE UNION {{<<t>> \o l : t \in TreesOfSize(k), l \in ListsOfSize(n - k)} : k \in 1..n}

HandlerLists(max) == UNION {ListsOfSize(n) : n \in 0..max}

\* The handlers of the concurrent runs: one of each shape.
ConcHandlers == {Noop, DataBad, Ref(AnyRaw), New(<<FileMissing>>)}

ConcLists(max) == UNION {[1..n -> ConcHandlers] : n \in 0..max}

\* Variant: the noop handler fails with another kind.
NoopReadNotFound(url) ==
    IoError("NotFound", "Reading from resource {url} is not supported", UrlString(url), <<>>)

\* Variant: the noop handler answers with empty data.
NoopReadEmpty(url) == Ok(MimeData(<<>>, <<>>))

\* NoopResourceHandler::read_resource
NoopRead(url) ==
    IoError("Unsupported", "Reading from resource {url} is not supported", UrlString(url), <<>>)

LeafRead(h, url) ==
    LET f == FilterSchemes(h.schemes, url)
    IN  IF f.ok THEN h.reply ELSE f

\* Variant: the error after the loop has another kind.
NoHandlerErrorNotFound(url) ==
    IoError("NotFound", "No handler supported reading from {url}", UrlString(url), <<>>)

\* The error after the loop of DispatchingResourceHandler::read_resource.
NoHandlerError(url) ==
    IoError("Unsupported", "No handler supported reading from {url}", UrlString(url), <<>>)

\* Variant: a success does not leave the loop.
ArmIgnoreOk(res) ==
    IF res.ok THEN "Continue"
    ELSE IF res.err.kind = "Unsupported" THEN "Continue"
    ELSE "ReturnErr"

\* Variant: every error moves on to the next handler.
ArmSkipErrors(res) == IF res.ok THEN "ReturnOk" ELSE "Continue"

\* Variant: the guard on ErrorKind::Unsupported is missing.
ArmNoFallback(res) == IF res.ok THEN "ReturnOk" ELSE "ReturnErr"

\* The match of the loop body: which arm takes the handler's result.
Arm(res) ==
    IF res.ok THEN "ReturnOk"
    ELSE IF res.err.kind = "Unsupported" THEN "Continue"
    ELSE "ReturnErr"

\* Variant: the reference wraps the error of the handler it points to.
ForwardWrapped(res) ==
    IF res.ok THEN res
    ELSE IoError("Other", "read through reference failed", <<>>, <<>>)

\* impl ResourceUrlHandler for &R: the value of (*self).read_resource(url).
Forward(res) == res

\* Variant: the loop steps over a handler.
AdvanceSkip(i) == i + 2

\* Iterator::next of the loop.
Advance(i) == i + 1

(* ------------------------- paths into the tree ------------------------- *)

\* Number of handlers a handler calls directly.
Arity(h) ==
    IF h.type = "Dispatch" THEN Len(h.handlers)
    ELSE IF h.type = "Ref" THEN 1 ELSE 0

Child(h, k) == IF h.type = "Dispatch" THEN h.handlers[k] ELSE h.inner

RECURSIVE At(_, _)

\* The handler reached from h along path p (<<>> is h itself).
At(h, p) == IF p = <<>> THEN h ELSE At(Child(h, Head(p)), Tail(p))

(* -------------------- read_resource as a function ---------------------- *)

RECURSIVE ReadAt(_, _, _), DispatchFrom(_, _, _, _)

\* h.read_resource(url) for the handler h at path p of root: its result and
\* the paths of the handlers invoked, in order.
ReadAt(root, p, url) ==
    LET h == At(root, p)
    IN  CASE h.type = "Noop" -> [res |-> NoopRead(url), trace |-> <<p>>]
          [] h.type = "Leaf" -> [res |-> LeafRead(h, url), trace |-> <<p>>]
          [] h.type = "Ref" ->
                LET r == ReadAt(root, p \o <<1>>, url)
                IN  [res |-> Forward(r.res), trace |-> <<p>> \o r.trace]
          [] h.type = "Dispatch" ->
                LET r == DispatchFrom(root, p, 1, url)
                IN  [res |-> r.res, trace |-> <<p>> \o r.trace]

\* The loop of the dispatcher at path p, from its i-th handler on.
DispatchFrom(root, p, i, url) ==
    IF i > Len(At(root, p).handlers)
    THEN [res |-> NoHandlerError(url), trace |-> <<>>]
    ELSE LET r == ReadAt(root, p \o <<i>>, url)
         IN  IF Arm(r.res) = "Continue"
             THEN LET rest == DispatchFrom(root, p, Advance(i), url)
                  IN  [res |-> rest.res, trace |-> r.trace \o rest.trace]
             ELSE r

(* --------------------------- state machine ----------------------------- *)

\* ret is the value the innermost activation has just received and ret_by
\* the path of the handler whose Error::new or Ok built that value: an
\* io::Error is neither Clone nor PartialEq, it is moved from where it was
\* built to the caller, so "whose error it is" is where it was built.
Idle == [pc |-> "idle", url |-> FileUrl, stack |-> <<>>, ret |-> None, ret_by |-> <<>>,
         invoked |-> <<>>, returned |-> {}, overlapped |-> FALSE]

FsOff == [pc |-> "off", schemes |-> <<>>, url |-> FileUrl, result |-> None]

\* One caller, a dispatcher built from any list of at most MaxSize nodes.
Init ==
    /\ built \in HandlerLists(MaxSize)
    /\ self = New(built)
    /\ call = [c \in 1..1 |-> Idle]
    /\ fs = FsOff

\* MaxCalls callers sharing one dispatcher.
InitConc ==
    /\ built \in ConcLists(MaxConcLen)
    /\ self = New(built)
    /\ call = [c \in 1..MaxCalls |-> Idle]
    /\ fs = FsOff

\* A filter_schemes call about to be made.
InitFilter ==
    /\ built = <<>>
    /\ self = New(built)
    /\ call = [c \in 1..1 |-> Idle]
    /\ \E s \in UNION {[1..n -> SchemeStrings] : n \in 0..MaxSchemes}, u \in FilterUrls :
          fs = [pc |-> "ready", schemes |-> s, url |-> u, result |-> None]

Top(c) == call[c].stack[Len(call[c].stack)]

\* Another call is in progress on the same dispatcher.
Overlaps(c) == \E d \in DOMAIN call : d # c /\ call[d].pc = "running"

\* The top frame of c is about to invoke a handler.
Pending(c) ==
    /\ call[c].pc = "running"
    /\ call[c].ret = None
    /\ Top(c).i <= Arity(At(self, Top(c).path))

\* Path of the handler the top frame invokes next.
TargetPath(c) == Top(c).path \o <<Top(c).i>>

Target(c) == At(self, TargetPath(c))

Invocation(c) == [path |-> TargetPath(c), url |-> call[c].url]

\* The top frame returns to its caller the value res, built by the handler
\* at path by.
Return(c, res, by) ==
    LET s == call[c].stack
        rest == SubSeq(s, 1, Len(s) - 1)
    IN  call' = [call EXCEPT ![c].stack = rest,
                             ![c].ret = res,
                             ![c].ret_by = by,
                             ![c].returned = @ \cup {[path |-> Top(c).path, res |-> res, by |-> by]},
                             ![c].pc = IF rest = <<>> THEN "done" ELSE "running",
                             ![c].overlapped = @ \/ Overlaps(c)]

\* A caller calls self.read_resource(u).
Call(c, u) ==
    /\ call[c].pc = "idle"
    /\ call' = [call EXCEPT ![c] = [pc |-> "running", url |-> u,
                                    stack |-> <<[kind |-> "dispatch", path |-> <<>>, i |-> 1]>>,
                                    ret |-> None,
                                    ret_by |-> <<>>,
                                    invoked |-> <<[path |-> <<>>, url |-> u]>>,
                                    returned |-> {},
                                    overlapped |-> Overlaps(c)]]
    /\ UNCHANGED <<built, self, fs>>

\* handler.read_resource(url) where the handler is a NoopResourceHandler.
InvokeNoop(c) ==
    /\ Pending(c)
    /\ Target(c).type = "Noop"
    /\ LET res == NoopRead(call[c].url)
       IN  call' = [call EXCEPT ![c].ret = res,
                                ![c].ret_by = TargetPath(c),
                                ![c].invoked = Append(@, Invocation(c)),
                                ![c].returned = @ \cup {[path |-> TargetPath(c), res |-> res,
                                                         by |-> TargetPath(c)]},
                                ![c].overlapped = @ \/ Overlaps(c)]
    /\ UNCHANGED <<built, self, fs>>

\* handler.read_resource(url) where the handler is a leaf implementation.
InvokeLeaf(c) ==
    /\ Pending(c)
    /\ Target(c).type = "Leaf"
    /\ LET res == LeafRead(Target(c), call[c].url)
       IN  call' = [call EXCEPT ![c].ret = res,
                                ![c].ret_by = TargetPath(c),
                                ![c].invoked = Append(@, Invocation(c)),
                                ![c].returned = @ \cup {[path |-> TargetPath(c), res |-> res,
                                                         by |-> TargetPath(c)]},
                                ![c].overlapped = @ \/ Overlaps(c)]
    /\ UNCHANGED <<built, self, fs>>

\* handler.read_resource(url) where the handler is a reference.
InvokeRef(c) ==
    /\ Pending(c)
    /\ Target(c).type = "Ref"
    /\ call' = [call EXCEPT ![c].stack = Append(@, [kind |-> "ref", path |-> TargetPath(c), i |-> 1]),
                            ![c].invoked = Append(@, Invocation(c)),
                            ![c].overlapped = @ \/ Overlaps(c)]
    /\ UNCHANGED <<built, self, fs>>

\* handler.read_resource(url) where the handler is a nested dispatcher.
InvokeDispatch(c) ==
    /\ Pending(c)
    /\ Target(c).type = "Dispatch"
    /\ call' = [call EXCEPT ![c].stack = Append(@, [kind |-> "dispatch", path |-> TargetPath(c), i |-> 1]),
                            ![c].invoked = Append(@, Invocation(c)),
                            ![c].overlapped = @ \/ Overlaps(c)]
    /\ UNCHANGED <<built, self, fs>>

\* The reference returns what the handler it points to returned.
RefReturn(c) ==
    /\ call[c].pc = "running"
    /\ call[c].ret # None
    /\ Top(c).kind = "ref"
    /\ Return(c, Forward(call[c].ret), call[c].ret_by)
    /\ UNCHANGED <<built, self, fs>>

\* Ok(data) => return Ok(data)
MatchOk(c) ==
    /\ call[c].pc = "running"
    /\ call[c].ret # None
    /\ Top(c).kind = "dispatch"
    /\ Arm(call[c].ret) = "ReturnOk"
    /\ Return(c, call[c].ret, call[c].ret_by)
    /\ UNCHANGED <<built, self, fs>>

\* Err(error) if error.kind() == ErrorKind::Unsupported => continue
MatchUnsupported(c) ==
    /\ call[c].pc = "running"
    /\ call[c].ret # None
    /\ Top(c).kind = "dispatch"
    /\ Arm(call[c].ret) = "Continue"
    /\ call' = [call EXCEPT ![c].stack[Len(call[c].stack)].i = Advance(@),
                            ![c].ret = None,
                            ![c].ret_by = <<>>,
                            ![c].overlapped = @ \/ Overlaps(c)]
    /\ UNCHANGED <<built, self, fs>>

\* Err(error) => return Err(error)
MatchErr(c) ==
    /\ call[c].pc = "running"
    /\ call[c].ret # None
    /\ Top(c).kind = "dispatch"
    /\ Arm(call[c].ret) = "ReturnErr"
    /\ Return(c, call[c].ret, call[c].ret_by)
    /\ UNCHANGED <<built, self, fs>>

\* The loop ran out of handlers: the error after the loop.
Exhausted(c) ==
    /\ call[c].pc = "running"
    /\ call[c].ret = None
    /\ Top(c).kind = "dispatch"
    /\ Top(c).i > Len(At(self, Top(c).path).handlers)
    /\ Return(c, NoHandlerError(call[c].url), Top(c).path)
    /\ UNCHANGED <<built, self, fs>>

Next ==
    \E c \in DOMAIN call :
        \/ \E u \in Urls : Call(c, u)
        \/ InvokeNoop(c)
        \/ InvokeLeaf(c)
        \/ InvokeRef(c)
        \/ InvokeDispatch(c)
        \/ RefReturn(c)
        \/ MatchOk(c)
        \/ MatchUnsupported(c)
        \/ MatchErr(c)
        \/ Exhausted(c)

\* filter_schemes(schemes, url) is called.
Filter ==
    /\ fs.pc = "ready"
    /\ fs' = [fs EXCEPT !.pc = "done", !.result = FilterSchemes(fs.schemes, fs.url)]
    /\ UNCHANGED <<built, self, call>>

NextFilter == Filter

Spec == Init /\ [][Next]_vars

SpecConc == InitConc /\ [][Next]_vars

SpecFilter == InitFilter /\ [][NextFilter]_vars

(* ------------------------ reading the history -------------------------- *)

Started(c) == call[c].pc # "idle"

Done(c) == call[c].pc = "done"

\* The paths of the handlers invoked so far by call c, in order.
InvokedPaths(c) == [i \in 1..Len(call[c].invoked) |-> call[c].invoked[i].path]

\* How often the handler at path p was invoked by call c.
Count(c, p) == Cardinality({i \in 1..Len(call[c].invoked) : call[c].invoked[i].path = p})

\* Position of the invocation of p among the invocations of call c.
Pos(c, p) == CHOOSE i \in 1..Len(call[c].invoked) : call[c].invoked[i].path = p

HasReturned(c, p) == \E e \in call[c].returned : e.path = p

\* What the handler at path p returned in call c.
Ret(c, p) == (CHOOSE e \in call[c].returned : e.path = p).res

\* The handler that built the value the handler at path p returned in call c.
BuiltBy(c, p) == (CHOOSE e \in call[c].returned : e.path = p).by

\* The dispatchers (the outer one and the nested ones) that returned in call c.
DispatchersReturned(c) ==
    {e.path : e \in {x \in call[c].returned : At(self, x.path).type = "Dispatch"}}

\* What the handler at path p returns for url when read on its own.
Would(p, url) == ReadAt(self, p, url).res

\* The handlers before position k of the dispatcher at p all decline url.
DeclinedBefore(p, k, url) == \A j \in 1..(k - 1) : IsUnsupported(Would(p \o <<j>>, url))

\* Path q lies strictly below path p.
Below(q, p) == Len(q) > Len(p) /\ SubSeq(q, 1, Len(p)) = p

(* ------------------------------- claims -------------------------------- *)

\* C1: when the first handler of a dispatcher that does not decline the URL
\* succeeds, the dispatcher returns exactly that handler's data, and no
\* handler after it is invoked, also not one that would succeed as well.
C1_FirstSuccessWins ==
    \A c \in DOMAIN call : \A p \in DispatchersReturned(c) :
        \A k \in 1..Arity(At(self, p)) :
            (DeclinedBefore(p, k, call[c].url) /\ IsOk(Would(p \o <<k>>, call[c].url)))
            => /\ Ret(c, p) = Would(p \o <<k>>, call[c].url)
               /\ Count(c, p \o <<k>>) = 1
               /\ HasReturned(c, p \o <<k>>)
               /\ Ret(c, p) = Ret(c, p \o <<k>>)
               /\ \A j \in (k + 1)..Arity(At(self, p)) : Count(c, p \o <<j>>) = 0

\* A call finished with the data of its second handler, the first declined,
\* and a third handler that would have succeeded too was left alone.
C1_Witness ==
    \E c \in DOMAIN call :
        /\ Done(c)
        /\ Len(self.handlers) >= 3
        /\ IsUnsupported(Would(<<1>>, call[c].url))
        /\ IsOk(Would(<<2>>, call[c].url))
        /\ IsOk(Would(<<3>>, call[c].url))
        /\ Would(<<3>>, call[c].url) # Would(<<2>>, call[c].url)
        /\ call[c].ret = Would(<<2>>, call[c].url)

\* C2: when the first handler of a dispatcher that does not decline the URL
\* fails with another kind of error, the dispatcher returns that very error
\* (kind and message) and invokes no handler after it.
C2_FirstErrorAborts ==
    \A c \in DOMAIN call : \A p \in DispatchersReturned(c) :
        \A k \in 1..Arity(At(self, p)) :
            (/\ DeclinedBefore(p, k, call[c].url)
             /\ IsErr(Would(p \o <<k>>, call[c].url))
             /\ ~IsUnsupported(Would(p \o <<k>>, call[c].url)))
            => /\ Ret(c, p) = Would(p \o <<k>>, call[c].url)
               /\ Count(c, p \o <<k>>) = 1
               /\ HasReturned(c, p \o <<k>>)
               /\ Ret(c, p) = Ret(c, p \o <<k>>)
               /\ \A j \in (k + 1)..Arity(At(self, p)) : Count(c, p \o <<j>>) = 0

\* A call finished with the NotFound error of its second handler although
\* the third handler would have succeeded.
C2_Witness ==
    \E c \in DOMAIN call :
        /\ Done(c)
        /\ Len(self.handlers) >= 3
        /\ IsUnsupported(Would(<<1>>, call[c].url))
        /\ IsErr(Would(<<2>>, call[c].url))
        /\ Would(<<2>>, call[c].url).err.kind = "NotFound"
        /\ IsOk(Would(<<3>>, call[c].url))
        /\ call[c].ret = Would(<<2>>, call[c].url)

\* Every handler of the dispatcher at p was invoked once in call c and declined.
AllDeclined(c, p) ==
    \A k \in 1..Arity(At(self, p)) :
        /\ Count(c, p \o <<k>>) = 1
        /\ HasReturned(c, p \o <<k>>)
        /\ IsUnsupported(Ret(c, p \o <<k>>))

\* C3: a dispatcher fails with Unsupported exactly when its list is
\* exhausted, every handler (possibly none) having been invoked and having
\* declined; the error is then the one the dispatcher itself builds after
\* its loop, naming the URL, and not the error of any handler under it,
\* whatever its kind (leaf, noop, reference or nested dispatcher): none of
\* them returned the error value the dispatcher returns.
C3_UnsupportedIffExhausted ==
    \A c \in DOMAIN call : \A p \in DispatchersReturned(c) :
        /\ IsUnsupported(Ret(c, p)) <=> AllDeclined(c, p)
        /\ IsUnsupported(Ret(c, p))
           => /\ Ret(c, p) = NoHandlerError(call[c].url)
              /\ Ret(c, p).err.msg.url = UrlString(call[c].url)
              /\ BuiltBy(c, p) = p
              /\ \A e \in call[c].returned :
                    Below(e.path, p) => e.by # BuiltBy(c, p)

\* A call on a list of two handlers that both declined ended with the outer
\* dispatcher's own Unsupported error; the first handler is a nested
\* dispatcher that was exhausted too, and whose error, equal in kind and
\* message, is another value, built by the nested dispatcher.
C3_Witness ==
    \E c \in DOMAIN call :
        /\ Done(c)
        /\ Len(self.handlers) = 2
        /\ self.handlers[1].type = "Dispatch"
        /\ Len(self.handlers[1].handlers) = 1
        /\ self.handlers[2].type = "Leaf"
        /\ AllDeclined(c, <<>>)
        /\ IsUnsupported(call[c].ret)
        /\ Ret(c, <<1>>) = call[c].ret
        /\ BuiltBy(c, <<1>>) = <<1>>
        /\ BuiltBy(c, <<>>) = <<>>

\* C6: NoopResourceHandler::read_resource fails with Unsupported for every
\* URL, with a message naming the URL; it never succeeds and never fails
\* with another kind.
C6_NoopAlwaysUnsupported ==
    \A c \in DOMAIN call : \A e \in call[c].returned :
        At(self, e.path).type = "Noop"
        => /\ ~e.res.ok
           /\ e.res.err.kind = "Unsupported"
           /\ e.res.err.msg.url = UrlString(call[c].url)

\* A noop handler was read for the file URL in one call, for the data URL
\* in another.
C6_Witness ==
    \E c \in DOMAIN call : \E e \in call[c].returned :
        /\ At(self, e.path).type = "Noop"
        /\ call[c].url = DataUrl
        /\ IsUnsupported(e.res)

\* C8: reading through a reference invokes the handler it points to exactly
\* once, with the same URL and right after the reference itself, and returns
\* exactly what that handler returned.
C8_ReferenceForwards ==
    \A c \in DOMAIN call : \A e \in call[c].returned :
        At(self, e.path).type = "Ref"
        => /\ Count(c, e.path) = 1
           /\ Count(c, e.path \o <<1>>) = 1
           /\ Pos(c, e.path \o <<1>>) = Pos(c, e.path) + 1
           /\ call[c].invoked[Pos(c, e.path \o <<1>>)].url = call[c].invoked[Pos(c, e.path)].url
           /\ HasReturned(c, e.path \o <<1>>)
           /\ e.res = Ret(c, e.path \o <<1>>)
           /\ e.res = Would(e.path \o <<1>>, call[c].url)

\* A reference to a leaf handler returned that handler's NotFound error.
C8_Witness ==
    \E c \in DOMAIN call : \E e \in call[c].returned :
        /\ At(self, e.path).type = "Ref"
        /\ At(self, e.path \o <<1>>).type = "Leaf"
        /\ IsErr(e.res)
        /\ e.res.err.kind = "NotFound"

\* Some step of call c.
Step(c) ==
    \/ InvokeNoop(c) \/ InvokeLeaf(c) \/ InvokeRef(c) \/ InvokeDispatch(c)
    \/ RefReturn(c) \/ MatchOk(c) \/ MatchUnsupported(c) \/ MatchErr(c) \/ Exhausted(c)

\* C9: within one call a dispatcher invokes its handlers in list order with
\* the URL of the call, each at most once: the handler at position k is
\* invoked only if all handlers before it were invoked and declined, and,
\* once the dispatcher has returned, whenever they all did.  So it makes at
\* most as many invocations as it has handlers, and a call that has not
\* returned yet can always take its next step.
C9_InOrderNoSkipNoRetry ==
    \A c \in DOMAIN call :
        /\ call[c].pc = "running" => ENABLED Step(c)
        /\ \A i \in 1..Len(call[c].invoked) : call[c].invoked[i].url = call[c].url
        /\ \A i \in 1..Len(call[c].invoked) :
              At(self, call[c].invoked[i].path).type = "Dispatch"
              => LET p == call[c].invoked[i].path
                     n == Arity(At(self, p))
                 IN  /\ \A k \in 1..n : Count(c, p \o <<k>>) <= 1
                     /\ \A k \in 1..n :
                           Count(c, p \o <<k>>) = 1
                           => \A j \in 1..(k - 1) :
                                 /\ Count(c, p \o <<j>>) = 1
                                 /\ Pos(c, p \o <<j>>) < Pos(c, p \o <<k>>)
                                 /\ HasReturned(c, p \o <<j>>)
                                 /\ IsUnsupported(Ret(c, p \o <<j>>))
                     /\ HasReturned(c, p)
                        => \A k \in 1..n :
                              (\A j \in 1..(k - 1) :
                                  /\ Count(c, p \o <<j>>) = 1
                                  /\ IsUnsupported(Ret(c, p \o <<j>>)))
                              => Count(c, p \o <<k>>) = 1
                     /\ Cardinality({j \in 1..Len(call[c].invoked) :
                                        /\ Len(call[c].invoked[j].path) = Len(p) + 1
                                        /\ Below(call[c].invoked[j].path, p)}) <= n

\* A call went through three handlers in order: two declined, the third was
\* invoked and the call returned.
C9_Witness ==
    \E c \in DOMAIN call :
        /\ Done(c)
        /\ Len(self.handlers) = 3
        /\ Count(c, <<3>>) = 1
        /\ Pos(c, <<1>>) < Pos(c, <<2>>)
        /\ Pos(c, <<2>>) < Pos(c, <<3>>)
        /\ IsUnsupported(Ret(c, <<1>>))
        /\ IsUnsupported(Ret(c, <<2>>))

(* ----------------------- rearranging the list --------------------------- *)

RECURSIVE Flatten(_)

\* The list with every directly nested dispatcher replaced by its own
\* (flattened) handlers.
Flatten(hs) ==
    IF hs = <<>> THEN <<>>
    ELSE (IF Head(hs).type = "Dispatch" THEN Flatten(Head(hs).handlers) ELSE <<Head(hs)>>)
         \o Flatten(Tail(hs))

\* A dispatcher over hs, written out.
Dispatcher(hs) == [type |-> "Dispatch", handlers |-> hs]

RECURSIVE LeavesAt(_, _)

\* The leaf and noop handlers among the handlers of root at the paths ps, in order.
LeavesAt(root, ps) ==
    IF ps = <<>> THEN <<>>
    ELSE (IF At(root, Head(ps)).type \in {"Noop", "Leaf"} THEN <<At(root, Head(ps))>> ELSE <<>>)
         \o LeavesAt(root, Tail(ps))

InsertAt(hs, pos, h) == SubSeq(hs, 1, pos - 1) \o <<h>> \o SubSeq(hs, pos, Len(hs))

RemoveAt(hs, pos) == SubSeq(hs, 1, pos - 1) \o SubSeq(hs, pos + 1, Len(hs))

RECURSIVE Without(_, _)

\* The paths of ps that are not the top-level position pos.
Without(ps, pos) ==
    IF ps = <<>> THEN <<>>
    ELSE (IF Head(ps) = <<pos>> THEN <<>> ELSE <<Head(ps)>>) \o Without(Tail(ps), pos)

\* The path q in the list from which top-level position pos was removed.
Lowered(q, pos) ==
    IF q # <<>> /\ Head(q) > pos THEN <<Head(q) - 1>> \o Tail(q) ELSE q

LoweredAll(ps, pos) == [i \in 1..Len(ps) |-> Lowered(ps[i], pos)]

\* C4: a dispatcher with nested dispatchers returns the same result and
\* invokes the same leaf handlers in the same order as the dispatcher over
\* the flattened list.
C4_NestingEqualsFlattening ==
    \A c \in DOMAIN call :
        Done(c)
        => LET flat == Dispatcher(Flatten(self.handlers))
               r == ReadAt(flat, <<>>, call[c].url)
           IN  /\ call[c].ret = r.res
               /\ LeavesAt(self, InvokedPaths(c)) = LeavesAt(flat, r.trace)

\* A call finished on a list whose first handler is a nested dispatcher with
\* two handlers that both declined, and whose second handler then answered.
C4_Witness ==
    \E c \in DOMAIN call :
        /\ Done(c)
        /\ Len(self.handlers) = 2
        /\ self.handlers[1].type = "Dispatch"
        /\ Len(self.handlers[1].handlers) = 2
        /\ IsUnsupported(Ret(c, <<1>>))
        /\ Count(c, <<1, 2>>) = 1
        /\ Count(c, <<2>>) = 1
        /\ IsOk(call[c].ret)

\* C7: putting a NoopResourceHandler at any position of the list, or taking
\* one out, changes neither the result nor the invocations of the other
\* handlers; a dispatcher over an empty or noop-only list fails with
\* Unsupported.
C7_NoopIsIdentity ==
    \A c \in DOMAIN call :
        Done(c)
        => /\ \A pos \in 1..(Len(self.handlers) + 1) :
                 LET r == ReadAt(Dispatcher(InsertAt(self.handlers, pos, Noop)), <<>>, call[c].url)
                 IN  /\ r.res = call[c].ret
                     /\ LoweredAll(Without(r.trace, pos), pos) = InvokedPaths(c)
           /\ \A pos \in 1..Len(self.handlers) :
                 self.handlers[pos].type = "Noop"
                 => LET r == ReadAt(Dispatcher(RemoveAt(self.handlers, pos)), <<>>, call[c].url)
                    IN  /\ r.res = call[c].ret
                        /\ r.trace = LoweredAll(Without(InvokedPaths(c), pos), pos)
           /\ (\A k \in 1..Len(self.handlers) : self.handlers[k].type = "Noop")
              => IsUnsupported(call[c].ret)

\* A call finished with data on a list that holds a noop handler before the
\* handler that answered and a further handler after it.
C7_Witness ==
    \E c \in DOMAIN call :
        /\ Done(c)
        /\ Len(self.handlers) = 3
        /\ self.handlers[1].type = "Noop"
        /\ self.handlers[2].type = "Leaf"
        /\ IsOk(call[c].ret)

\* C5: filter_schemes(S, u) is Ok(u), with u unchanged, exactly when the
\* scheme of u is one of the strings of S; in every other case, also for
\* empty S, it fails with Unsupported.
C5_FilterSchemes ==
    fs.pc = "done"
    => LET member == fs.url.scheme \in {fs.schemes[i] : i \in 1..Len(fs.schemes)}
       IN  /\ (fs.result.ok /\ fs.result.val = fs.url) <=> member
           /\ ~member => (~fs.result.ok /\ fs.result.err.kind = "Unsupported")
           /\ ~member => (/\ fs.result.err.msg.url = UrlString(fs.url)
                          /\ fs.result.err.msg.schemes = fs.schemes)

\* filter_schemes accepted a URL whose scheme is the second string of the list.
C5_Witness ==
    /\ fs.pc = "done"
    /\ Len(fs.schemes) = 2
    /\ fs.schemes[1] = "FILE"
    /\ fs.schemes[2] = fs.url.scheme
    /\ fs.result = Ok(fs.url)

\* C10: the handler list is the one given to new() and no read_resource
\* call changes it; every one of several interleaved calls invokes the
\* handlers it would invoke when run alone, and returns the same result.
C10_ConcurrentCallsIndependent ==
    /\ self.handlers = built
    /\ \A c \in DOMAIN call :
          Started(c)
          => LET alone == ReadAt(Dispatcher(built), <<>>, call[c].url)
             IN  /\ Len(call[c].invoked) <= Len(alone.trace)
                 /\ InvokedPaths(c) = SubSeq(alone.trace, 1, Len(call[c].invoked))
                 /\ Done(c) => (InvokedPaths(c) = alone.trace /\ call[c].ret = alone.res)

\* Two calls with different URLs ran interleaved on the same dispatcher and
\* both finished, with different results.
C10_Witness ==
    /\ Len(built) >= 2
    /\ \E c \in DOMAIN call : \E d \in DOMAIN call :
          /\ c # d
          /\ Done(c) /\ Done(d)
          /\ call[c].overlapped /\ call[d].overlapped
          /\ call[c].url # call[d].url
          /\ IsOk(call[c].ret)
          /\ IsErr(call[d].ret)
          /\ Len(call[c].invoked) >= 3

====
